---- MODULE Spec2Model ----
(***************************************************************************)
(* Model of the NeuralNetworkAnimation controller (src/index.ts and its    *)
(* compiled form src/unnamed/part_001): node motion and wall collisions,   *)
(* the connection mesh, the particle and ripple pools, and the preset      *)
(* transition engine.                                                      *)
(*                                                                         *)
(* Numbers.  Every real quantity is held in thousandths (Q = 1000): a      *)
(* nodeSpeed of 0.5 is 500, a position of 15.346 is 15346.  Wall-clock     *)
(* time (performance.now, THREE.Clock) is counted in ticks of 1/60 s, the  *)
(* nominal frame length, so that the 0.1 s collision debounce is 6 ticks.  *)
(* The transition engine's double arithmetic (lerp, the easing curves) is  *)
(* modelled as floating point with SigDigits significant decimal digits   *)
(* and round-half-even, so that rounding of intermediate results is part   *)
(* of the model.  Node physics is fixed point with rounding to the nearest *)
(* thousandth.                                                             *)
(***************************************************************************)
EXTENDS Integers, Sequences, FiniteSets, TLC

VARIABLES
    params,               \* the live parameter set (this.nodeCount ... this.wallFriction, currentPresetName)
    nodes,                \* this.nodes
    nodeGen,              \* number of node batches created so far (identity of the live batch)
    nodeRes,              \* geometry/material objects allocated by the live batch
    nodeDisposals,        \* dispose() calls received by the objects of the batch released last
    connections,          \* this.connectionLines.children, as index pairs
    particles,            \* this.particles
    ripples,              \* this.ripples
    disposed,             \* dispose() calls received by each particle/ripple mesh ever created
    nextId,               \* identity of the next particle/ripple mesh
    released,             \* meshes whose dispose() calls were made by the last operation
    retired,              \* particles and ripples the update loops of the last frame removed
    isTransitioning,
    transitionStartTime,
    transitionDuration,
    transitionEasing,
    fromPreset,
    toPreset,
    aspect,               \* this.camera.aspect
    now,                  \* wall clock, ticks
    started,              \* THREE.Clock running (first frame done)
    events,               \* collision responses fired in the last frame
    rebuilds,             \* node-pool rebuilds made by the last operation
    lastOp,               \* the operation that produced this state
    raised,               \* the last operation ended in an uncaught TypeError
    easingArg,            \* argument of the last call of the easing function
    easingValue,          \* value it returned
    applied,              \* the preset applied last, while nothing was requested or edited since
    entry,                \* duration and easing configured when the transition in flight was accepted
    twin,                 \* a second run of the same program, on another wall clock (Null when none is followed)
    sampling,             \* a call of generatePoissonDiskSampling in progress (Null when none is followed)
    dropdown,             \* the preset dropdown: its value and the fetches its change handler started
    edits                 \* control-panel operations made so far

vars == << params, nodes, nodeGen, nodeRes, nodeDisposals, connections, particles,
           ripples, disposed, nextId, released, retired, isTransitioning,
           transitionStartTime, transitionDuration, transitionEasing, fromPreset,
           toPreset, aspect, now, started, events, rebuilds, lastOp, raised,
           easingArg, easingValue, applied,
           entry,
           twin,
           sampling,
           dropdown, edits >>

-----------------------------------------------------------------------------
(* Bounds of the model *)

SigDigits == 4        \* significant decimal digits kept by the modelled floating point
MaxTime == 9          \* wall-clock horizon of the physics runs, ticks
MaxTransTime == 150   \* wall-clock horizon of the transition runs, ticks
MaxPoolTime == 480    \* wall-clock horizon of the pool runs, ticks
MaxSpawnTime == 14    \* particles are spawned in the first frames, ticks
MaxLifeTime == 2760   \* wall-clock horizon of the lifetime runs, ticks (184 frames)
MaxIds == 2           \* particle/ripple meshes created in one run
MaxSpawned == 1       \* particles created in one run of the spawn-guard runs
MaxEdits == 3         \* control-panel operations in one run
MaxEditTime == 30     \* the panels are operated in the first half second, ticks
EaseSamples == 100    \* the easing curves are sampled at k / EaseSamples, k = 0 .. EaseSamples
MaxSelect == 2          \* dropdown selections in one run
MaxPoints == 3          \* largest numPoints handed to the spatial sampler

-----------------------------------------------------------------------------
(* Arithmetic *)

Q == 10 * 10 * 10            \* every real quantity is held in thousandths

Abs(x) == IF x < 0 THEN -x ELSE x

RECURSIVE Pow10(_)
Pow10(e) == IF e = 0 THEN 1 ELSE 10 * Pow10(e - 1)

\* n/d rounded to the nearest integer, ties to even (d > 0)
RoundHalfEven(n, d) ==
    LET q == n \div d
        r == n - q * d
    IN  IF 2 * r < d THEN q
        ELSE IF 2 * r > d THEN q + 1
        ELSE IF q % 2 = 0 THEN q ELSE q + 1

\* n/d rounded to the nearest integer, ties away from zero (fixed-point physics)
RoundDiv(n, d) ==
    IF n >= 0 THEN (2 * n + d) \div (2 * d) ELSE -((2 * (-n) + d) \div (2 * d))

\* the spacing of representable values at magnitude a
RECURSIVE FlStep(_)
FlStep(a) == IF a < Pow10(SigDigits) THEN 1 ELSE 10 * FlStep(a \div 10)

\* the floating-point value nearest to n/d
FlRat(n, d) ==
    LET step == FlStep(Abs(n) \div d)
    IN  RoundHalfEven(n, d * step) * step

Fl(x) == FlRat(x, 1)

\* Math.round: nearest integer, ties towards +infinity; x in thousandths
MathRound(x) == (2 * x + Q) \div (2 * Q)

Min(a, b) == IF a < b THEN a ELSE b
Max(a, b) == IF a > b THEN a ELSE b

-----------------------------------------------------------------------------
(* Easing curves and interpolation *)

EasingKinds == {"linear", "ease-in", "ease-out", "ease-in-out", "bounce", "elastic"}

\* -2^(10t-10) * sin((10t-10.75) * 2pi/3) sampled at t = 0.00, 0.01, ..., 1.00
ElasticTable ==
    <<
       0, 0, 0, 0, 0, 1, 1, 1, 2, 2,
       2, 2, 2, 2, 2, 1, 1, 0, 0, -1,
       -2, -3, -4, -4, -5, -6, -6, -6, -6, -5,
       -4, -3, -1, 1, 3, 6, 8, 10, 12, 14,
       16, 16, 16, 16, 14, 11, 7, 3, -3, -9,
       -16, -22, -29, -35, -40, -44, -46, -46, -44, -39,
       -31, -21, -8, 8, 25, 44, 63, 82, 99, 114,
       125, 131, 131, 125, 110, 88, 59, 21, -23, -72,
       -125, -179, -232, -281, -323, -354, -371, -371, -352, -312,
       -250, -166, -60, 64, 204, 354, 507, 657, 795, 913,
       1000 >>

\* a bounce whose last segment lacks its offset 0.984375
BounceOutNoOffset(t) ==
    IF 11 * t < 4 * Q THEN FlRat(121 * t * t, 16 * Q)
    ELSE IF 11 * t < 8 * Q THEN FlRat((11 * t - 6 * Q) * (11 * t - 6 * Q) + 12000 * Q, 16 * Q)
    ELSE IF 11 * t < 10 * Q THEN FlRat((11 * t - 9 * Q) * (11 * t - 9 * Q) + 15000 * Q, 16 * Q)
    ELSE FlRat((22 * t - 21 * Q) * (22 * t - 21 * Q), 64 * Q)

BounceOut(t) ==
    IF 11 * t < 4 * Q THEN FlRat(121 * t * t, 16 * Q)
    ELSE IF 11 * t < 8 * Q THEN FlRat((11 * t - 6 * Q) * (11 * t - 6 * Q) + 12000 * Q, 16 * Q)
    ELSE IF 11 * t < 10 * Q THEN FlRat((11 * t - 9 * Q) * (11 * t - 9 * Q) + 15000 * Q, 16 * Q)
    ELSE FlRat((22 * t - 21 * Q) * (22 * t - 21 * Q) + 63000 * Q, 64 * Q)

ElasticIn(t) ==
    IF t = 0 THEN 0
    ELSE IF t = Q THEN Q
    ELSE Fl(ElasticTable[RoundDiv(t, 10) + 1])

\* getEasingFunction(type)(t), t in thousandths
getEasingFunction(type, t) ==
    CASE type = "linear" -> t
      [] type = "ease-in" -> FlRat(t * t * t, Q * Q)
      [] type = "ease-out" -> Fl(Q - FlRat((Q - t) * (Q - t) * (Q - t), Q * Q))
      [] type = "ease-in-out" ->
            IF 2 * t < Q THEN FlRat(4 * t * t * t, Q * Q)
            ELSE Fl(Q - FlRat((2 * Q - 2 * t) * (2 * Q - 2 * t) * (2 * Q - 2 * t), 2 * Q * Q))
      [] type = "bounce" -> BounceOut(t)
      [] type = "elastic" -> ElasticIn(t)
      [] OTHER -> t

\* lerp(start, end, t) = start + (end - start) * t, each operation rounded
lerp(start, end, t) == Fl(start + FlRat(Fl(end - start) * t, Q))

\* lerpColor: channel-wise blend of two colours, written back as 8-bit hex
lerpChannel(a, b, t) == Max(0, Min(255, RoundDiv(a * Q + (b - a) * t, Q)))
lerpColor(startColor, endColor, t) ==
    [c \in 1..3 |-> lerpChannel(startColor[c], endColor[c], t)]

-----------------------------------------------------------------------------
(* Parameter sets *)

\* the values the constructor and the reset button assign
DefaultPreset ==
    [ name |-> "Default", nodeCount |-> 12, nodeSpeed |-> 500, activitySpeed |-> 2000,
      connectionOpacity |-> 300, spaceSize |-> 15000, mouseInfluenceRadius |-> 5000,
      backgroundColor |-> <<10, 10, 26>>, nodeColor |-> <<255, 107, 107>>,
      connectionColor |-> <<79, 195, 247>>, showAllConnections |-> TRUE,
      particleCount |-> 8, particleSpeed |-> 1000, particleSize |-> 200,
      particleColor |-> <<255, 255, 0>>, showParticles |-> TRUE,
      rippleIntensity |-> 800, rippleDuration |-> 2000, rippleSize |-> 1000,
      rippleColor |-> <<255, 255, 255>>, showRipples |-> TRUE,
      wallRestitution |-> 700, wallFriction |-> 950 ]

\* preset files: every field inside the range of the exchange format
PresetB ==
    [ DefaultPreset EXCEPT !.name = "B", !.nodeCount = 20, !.nodeSpeed = 150,
      !.nodeColor = <<0, 128, 255>>, !.particleCount = 20, !.particleSpeed = 3000,
      !.rippleDuration = 500, !.mouseInfluenceRadius = 2505,
      !.wallRestitution = 1000, !.wallFriction = 1000 ]

PresetSparse ==
    [ DefaultPreset EXCEPT !.name = "Sparse", !.nodeCount = 5, !.nodeSpeed = 1000,
      !.wallRestitution = 100, !.rippleDuration = 500, !.particleSpeed = 3000,
      !.mouseInfluenceRadius = 15000 ]

PresetDense ==
    [ DefaultPreset EXCEPT !.name = "Dense", !.nodeCount = 25, !.nodeSpeed = 1000,
      !.wallRestitution = 1000, !.showAllConnections = FALSE ]

PresetMid == [ DefaultPreset EXCEPT !.name = "Mid", !.nodeCount = 15 ]

PresetQuiet ==
    [ DefaultPreset EXCEPT !.name = "Quiet", !.showAllConnections = FALSE,
                           !.showParticles = FALSE, !.showRipples = FALSE,
                           !.rippleDuration = 500, !.rippleIntensity = 2000 ]

\* fromPreset / toPreset when no transition is set up
Null == [ null |-> TRUE ]

NumericFields ==
    { "nodeSpeed", "activitySpeed", "connectionOpacity", "spaceSize", "mouseInfluenceRadius",
      "particleSpeed", "particleSize", "rippleIntensity", "rippleDuration", "rippleSize",
      "wallRestitution", "wallFriction" }
CountFields == { "nodeCount", "particleCount" }
ColorFields == { "backgroundColor", "nodeColor", "connectionColor", "particleColor", "rippleColor" }
BoolFields == { "showAllConnections", "showParticles", "showRipples" }

-----------------------------------------------------------------------------
(* The controller's state as one value, so that methods compose *)

St ==
    [ params |-> params, nodes |-> nodes, nodeGen |-> nodeGen, nodeRes |-> nodeRes,
      nodeDisposals |-> nodeDisposals, connections |-> connections,
      particles |-> particles, ripples |-> ripples, disposed |-> disposed,
      nextId |-> nextId, released |-> released, retired |-> retired,
      isTransitioning |-> isTransitioning,
      transitionStartTime |-> transitionStartTime,
      transitionDuration |-> transitionDuration, transitionEasing |-> transitionEasing,
      fromPreset |-> fromPreset, toPreset |-> toPreset, aspect |-> aspect,
      now |-> now, started |-> started, events |-> events, rebuilds |-> rebuilds,
      lastOp |-> lastOp, raised |-> raised, easingArg |-> easingArg,
      easingValue |-> easingValue, applied |-> applied,
      entry |-> entry,
      twin |-> twin,
      sampling |-> sampling,
      dropdown |-> dropdown, edits |-> edits ]

\* every variable takes its value in the state a handler returns
Becomes(s0) ==
    \E s \in { s0 } :
        /\ params' = s.params
        /\ nodes' = s.nodes
        /\ nodeGen' = s.nodeGen
        /\ nodeRes' = s.nodeRes
        /\ nodeDisposals' = s.nodeDisposals
        /\ connections' = s.connections
        /\ particles' = s.particles
        /\ ripples' = s.ripples
        /\ disposed' = s.disposed
        /\ nextId' = s.nextId
        /\ released' = s.released
        /\ retired' = s.retired
        /\ isTransitioning' = s.isTransitioning
        /\ transitionStartTime' = s.transitionStartTime
        /\ transitionDuration' = s.transitionDuration
        /\ transitionEasing' = s.transitionEasing
        /\ fromPreset' = s.fromPreset
        /\ toPreset' = s.toPreset
        /\ aspect' = s.aspect
        /\ now' = s.now
        /\ started' = s.started
        /\ events' = s.events
        /\ rebuilds' = s.rebuilds
        /\ lastOp' = s.lastOp
        /\ raised' = s.raised
        /\ easingArg' = s.easingArg
        /\ easingValue' = s.easingValue
        /\ applied' = s.applied
        /\ entry' = s.entry
        /\ twin' = s.twin
        /\ sampling' = s.sampling
        /\ dropdown' = s.dropdown
        /\ edits' = s.edits

-----------------------------------------------------------------------------
(* The box *)

Depth == 20000
HalfHeight == 15346          \* tan(fov / 2) * depth for fov = 75 degrees

boundaryY == HalfHeight
boundaryZ == (Depth * 4) \div 10
boundaryX(a) == RoundDiv(HalfHeight * a, Q)

Boundary(a) == << boundaryX(a), boundaryY, boundaryZ >>

-----------------------------------------------------------------------------
(* Nodes and connections *)

\* the node the random draws of createNodes leave alone in the model
RestDraw == [ u |-> <<0, 0, 0>>, vel |-> <<0, 0, 0>>, restitution |-> 750, friction |-> 950 ]

BatchGeometry == [ kind |-> "geometry", owner |-> 0 ]
NodeMaterial(i) == [ kind |-> "material", owner |-> i ]

\* one node of createNodes: position (Math.random() - 0.5) * extent on each axis
NewNode(d, i, a, gen) ==
    [ id |-> << gen, i >>,
      position |-> [ c \in 1..3 |-> RoundDiv(d.u[c] * 2 * Boundary(a)[c], Q) ],
      velocity |-> d.vel,
      restitution |-> d.restitution,
      friction |-> d.friction,
      lastCollisionTime |-> 0,
      sinceResponse |-> [ c \in 1..3 |-> -1 ], \* steps since the last response on each axis
      geometry |-> BatchGeometry,
      material |-> NodeMaterial(i) ]

AllPairs(n) == { p \in (1..n) \X (1..n) : p[1] < p[2] }

updateConnections(s) ==
    [ s EXCEPT !.connections =
        IF ~s.params.showAllConnections THEN {} ELSE AllPairs(Len(s.nodes)) ]

createNodes(s, d) ==
    LET n == Max(0, s.params.nodeCount)
        gen == s.nodeGen + 1
        batch == [ i \in 1..n |-> NewNode(IF i = 1 THEN d ELSE RestDraw, i, s.aspect, gen) ]
    IN  updateConnections(
          [ s EXCEPT !.nodes = s.nodes \o batch,
                     !.nodeGen = gen,
                     !.nodeRes = { BatchGeometry } \cup { NodeMaterial(i) : i \in 1..n } ])

\* dispose() calls made by recreateNodes on each object of the batch it releases
DisposeCalls(s) ==
    [ r \in s.nodeRes |->
        Cardinality({ i \in 1..Len(s.nodes) : s.nodes[i].geometry = r })
      + Cardinality({ i \in 1..Len(s.nodes) : s.nodes[i].material = r }) ]

recreateNodes(s, d) ==
    createNodes([ s EXCEPT !.nodeDisposals = DisposeCalls(s),
                           !.nodes = << >>,
                           !.rebuilds = s.rebuilds + 1 ], d)

-----------------------------------------------------------------------------
(* Particles and ripples *)

Lifespan == 180              \* particle lifespan 3.0 s, in steps of 1/60 s
ProgressFull == 60 * Q       \* progress 1.0, in units of 1/60000

Fresh == [ geometry |-> 0, material |-> 0 ]

\* mesh.geometry.dispose(); mesh.material.dispose()
Dispose(disp, ids) ==
    [ i \in DOMAIN disp |->
        IF i \in ids THEN [ geometry |-> disp[i].geometry + 1, material |-> disp[i].material + 1 ]
        ELSE disp[i] ]

Ids(pool) == { pool[k].id : k \in 1..Len(pool) }

\* seq without the elements that satisfy Gone, order kept
RECURSIVE Keep(_, _)
Keep(pool, gone) ==
    IF pool = << >> THEN << >>
    ELSE IF Head(pool).id \in gone THEN Keep(Tail(pool), gone)
    ELSE << Head(pool) >> \o Keep(Tail(pool), gone)

createParticle(s, startNode, endNode, factor) ==
    [ id |-> s.nextId,
      startNode |-> startNode.id,
      endNode |-> endNode.id,
      progress |-> 0,
      speed |-> RoundDiv(s.params.particleSpeed * factor, Q),
      lifespan |-> Lifespan,
      age |-> 0 ]

\* trials that can succeed whatever the Particle Count is
CanSpawnAnyCount(s) ==
    /\ s.params.showParticles
    /\ Len(s.nodes) > 1

\* the pairwise spawn trials can succeed: the loop runs and
\* Math.random() < finalProbability is possible
CanSpawn(s) ==
    /\ s.params.showParticles
    /\ Len(s.nodes) > 1
    /\ s.params.particleCount > 0

\* spawn: the trials that succeed in this frame, each [i, j, forward, factor]
RECURSIVE SpawnAll(_, _)
SpawnAll(s, spawn) ==
    IF spawn = << >> THEN s
    ELSE LET sp == Head(spawn)
             nodeA == s.nodes[sp.i]
             nodeB == s.nodes[sp.j]
             startNode == IF sp.forward THEN nodeA ELSE nodeB
             endNode == IF sp.forward THEN nodeB ELSE nodeA
         IN  SpawnAll([ s EXCEPT !.particles = Append(s.particles, createParticle(s, startNode, endNode, sp.factor)),
                                 !.disposed = s.disposed @@ (s.nextId :> Fresh),
                                 !.nextId = s.nextId + 1 ],
                      Tail(spawn))

\* what the update loops record of a particle or ripple they remove
Retired(kind, x, limit, progress) ==
    [ id |-> x.id, kind |-> kind, age |-> x.age, limit |-> limit, progress |-> progress ]

\* an update loop that tests a particle before it advances it
updateParticlesLateTest(s, spawn) ==
    LET aged == [ k \in 1..Len(s.particles) |->
                    [ s.particles[k] EXCEPT !.age = @ + 1, !.progress = @ + s.particles[k].speed ] ]
        over == { k \in 1..Len(aged) :
                    s.particles[k].progress >= ProgressFull \/ s.particles[k].age >= s.particles[k].lifespan }
        gone == { aged[k].id : k \in over }
        s1 == [ s EXCEPT !.particles = Keep(aged, gone), !.disposed = Dispose(s.disposed, gone),
                         !.released = s.released \cup gone,
                         !.retired = s.retired \cup
                             { Retired("particle", aged[k], aged[k].lifespan, aged[k].progress) : k \in over } ]
    IN  IF CanSpawn(s1) THEN SpawnAll(s1, spawn) ELSE s1

updateParticles(s, spawn) ==
    LET aged == [ k \in 1..Len(s.particles) |->
                    [ s.particles[k] EXCEPT !.age = @ + 1, !.progress = @ + s.particles[k].speed ] ]
        over == { k \in 1..Len(aged) :
                    aged[k].progress >= ProgressFull \/ aged[k].age >= aged[k].lifespan }
        gone == { aged[k].id : k \in over }
        s1 == [ s EXCEPT !.particles = Keep(aged, gone), !.disposed = Dispose(s.disposed, gone),
                         !.released = s.released \cup gone,
                         !.retired = s.retired \cup
                             { Retired("particle", aged[k], aged[k].lifespan, aged[k].progress) : k \in over } ]
    IN  IF CanSpawn(s1) THEN SpawnAll(s1, spawn) ELSE s1

createRipple(s, wallType) ==
    [ id |-> s.nextId,
      wallType |-> wallType,
      age |-> 0,
      maxAge |-> s.params.rippleDuration,
      maxRadius |-> RoundDiv(4 * s.params.rippleIntensity * s.params.rippleSize, Q),
      opacity |-> 6 * ((Q * Q * Q) \div 10) ]      \* 0.6, in units of 10^-9

\* a test that lets a ripple live through the frame in which its age equals maxAge
RippleOverStrict(r) == r.age * Q > r.maxAge * 60

\* age (steps of 1/60 s) >= maxAge (thousandths of a second)
RippleOver(r) == r.age * Q >= r.maxAge * 60

\* progress = age / maxAge, in thousandths
rippleProgress(r) == RoundDiv(r.age * Q * Q, r.maxAge * 60)

\* opacity = 0.6 * (1.0 - Math.pow(progress, 3)), in units of 10^-9
rippleOpacity(r) ==
    LET progress == rippleProgress(r)
    IN  6 * ((Q * Q * Q - progress * progress * progress) \div 10)

rippleFade(r) ==
    LET a == [ r EXCEPT !.age = @ + 1 ]
    IN  IF RippleOver(a) THEN a ELSE [ a EXCEPT !.opacity = rippleOpacity(a) ]

\* an update loop that takes each ripple's limits from the live parameters
updateRipplesLive(s) ==
    LET live == [ k \in 1..Len(s.ripples) |->
                    [ s.ripples[k] EXCEPT
                        !.maxAge = s.params.rippleDuration,
                        !.maxRadius = RoundDiv(4 * s.params.rippleIntensity * s.params.rippleSize, Q) ] ]
        aged == [ k \in 1..Len(live) |-> rippleFade(live[k]) ]
        over == { k \in 1..Len(aged) : RippleOver(aged[k]) }
        gone == { aged[k].id : k \in over }
    IN  [ s EXCEPT !.ripples = Keep(aged, gone), !.disposed = Dispose(s.disposed, gone),
                   !.released = s.released \cup gone,
                   !.retired = s.retired \cup
                       { Retired("ripple", aged[k], aged[k].maxAge, 0) : k \in over } ]

updateRipples(s) ==
    LET aged == [ k \in 1..Len(s.ripples) |-> rippleFade(s.ripples[k]) ]
        over == { k \in 1..Len(aged) : RippleOver(aged[k]) }
        gone == { aged[k].id : k \in over }
    IN  [ s EXCEPT !.ripples = Keep(aged, gone), !.disposed = Dispose(s.disposed, gone),
                   !.released = s.released \cup gone,
                   !.retired = s.retired \cup
                       { Retired("ripple", aged[k], aged[k].maxAge, 0) : k \in over } ]

clearAllRipples(s) ==
    [ s EXCEPT !.disposed = Dispose(s.disposed, Ids(s.ripples)),
               !.released = s.released \cup Ids(s.ripples),
               !.ripples = << >> ]

\* a clear that drops the particle meshes without disposing of them
clearAllParticlesUndisposed(s) == [ s EXCEPT !.particles = << >> ]

clearAllParticles(s) ==
    [ s EXCEPT !.disposed = Dispose(s.disposed, Ids(s.particles)),
               !.released = s.released \cup Ids(s.particles),
               !.particles = << >> ]

updateParticleVisibility(s) == IF ~s.params.showParticles THEN clearAllParticles(s) ELSE s

\* a visibility update that hides the group and leaves the pool as it is
updateRippleVisibilityHideOnly(s) == s

updateRippleVisibility(s) == IF ~s.params.showRipples THEN clearAllRipples(s) ELSE s

-----------------------------------------------------------------------------
(* Presets and the control panel *)

getCurrentPreset(s) == s.params

applyPreset(s, preset, d) ==
    LET s1 == [ s EXCEPT !.params = preset, !.applied = preset ]
        s2 == updateRippleVisibility(updateParticleVisibility(s1))
        s3 == clearAllRipples(clearAllParticles(s2))
    IN  recreateNodes(s3, d)

\* the reset button: the assignments run, then the handler stops at
\* controls.spaceSize.value (no such control exists) and nothing is refreshed
resetClick(s) ==
    [ s EXCEPT !.params = [ DefaultPreset EXCEPT !.name = s.params.name ], !.raised = TRUE ]

nodeCountSlider(s, val, d) ==
    recreateNodes([ s EXCEPT !.params.nodeCount = val ], d)

toggleConnections(s, checked) ==
    updateConnections([ s EXCEPT !.params.showAllConnections = checked ])

toggleParticles(s, checked) ==
    updateParticleVisibility([ s EXCEPT !.params.showParticles = checked ])

toggleRipples(s, checked) ==
    updateRippleVisibility([ s EXCEPT !.params.showRipples = checked ])

onWindowResize(s, a) == [ s EXCEPT !.aspect = a ]

-----------------------------------------------------------------------------
(* The transition engine *)

\* a request that restarts the transition in flight
startTransitionRestart(s, preset) ==
    [ s EXCEPT !.fromPreset = getCurrentPreset(s),
               !.toPreset = preset,
               !.isTransitioning = TRUE,
               !.transitionStartTime = s.now,
               !.entry = [ duration |-> s.transitionDuration, easing |-> s.transitionEasing ],
               !.raised = (preset = Null) ]

\* the four assignments run before the log line reads toPreset.name, which
\* throws a TypeError when the target is null
startTransition(s, preset) ==
    IF s.isTransitioning THEN s
    ELSE [ s EXCEPT !.fromPreset = getCurrentPreset(s),
                    !.toPreset = preset,
                    !.isTransitioning = TRUE,
                    !.transitionStartTime = s.now,
                    !.entry = [ duration |-> s.transitionDuration, easing |-> s.transitionEasing ],
                    !.raised = (preset = Null) ]

\* progress = Math.min(elapsed / transitionDuration, 1)
rawProgress(s) ==
    Min(FlRat((s.now - s.transitionStartTime) * Q, s.transitionDuration), Q)

easedT(s) == getEasingFunction(s.transitionEasing, rawProgress(s))

Interpolated(from, to, t, name) ==
    [ f \in DOMAIN from |->
        IF f = "name" THEN name
        ELSE IF f \in CountFields THEN MathRound(lerp(from[f] * Q, to[f] * Q, t))
        ELSE IF f \in NumericFields THEN lerp(from[f], to[f], t)
        ELSE IF f \in ColorFields THEN lerpColor(from[f], to[f], t)
        ELSE IF t >= Q \div 2 THEN to[f] ELSE from[f] ]

updateTransition(s, d) ==
    IF ~s.isTransitioning \/ s.fromPreset = Null \/ s.toPreset = Null THEN s
    ELSE
      LET progress == rawProgress(s)
          t == easedT(s)
          s1 == [ s EXCEPT !.params = Interpolated(s.fromPreset, s.toPreset, t, s.params.name),
                           !.easingArg = progress,
                           !.easingValue = t ]
          s2 == updateRippleVisibility(updateParticleVisibility(s1))
          s3 == IF Abs(s2.params.nodeCount - Len(s2.nodes)) > 0 THEN recreateNodes(s2, d) ELSE s2
      IN  IF progress >= Q
          THEN [ s3 EXCEPT !.isTransitioning = FALSE,
                           !.params.name = s.toPreset.name,
                           !.fromPreset = Null,
                           !.toPreset = Null ]
          ELSE s3

-----------------------------------------------------------------------------
(* Node motion and wall collisions *)

minTimeBetweenCollisions == 6      \* 0.1 s in ticks of 1/60 s

WallOf(axis, high) ==
    CASE axis = 1 -> IF high THEN "right" ELSE "left"
      [] axis = 2 -> IF high THEN "ceiling" ELSE "floor"
      [] axis = 3 -> IF high THEN "front" ELSE "back"

\* velocity.A = -velocity.A * (node.restitution * this.wallRestitution)
Reflected(v, restitution, wallRestitution) ==
    RoundDiv((-v) * RoundDiv(restitution * wallRestitution, Q), Q)

\* a response that rubs with the node's own friction coefficient
RubbedByNode(v, node, wallFriction) == RoundDiv(v * node.friction, Q)

\* velocity.B *= this.wallFriction
Rubbed(v, node, wallFriction) == RoundDiv(v * wallFriction, Q)

\* the response of one wall: reflect the normal component, rub the two others
Respond(node, axis, P, time) ==
    [ node EXCEPT
        !.sinceResponse[axis] = 0,
        !.velocity = [ c \in 1..3 |->
            IF c = axis THEN Reflected(node.velocity[c], node.restitution, P.wallRestitution)
            ELSE Rubbed(node.velocity[c], node, P.wallFriction) ],
        !.lastCollisionTime = time ]

Debounced(node, time) == ~((time - node.lastCollisionTime) > minTimeBetweenCollisions)

\* a collision test that clamps only when the response fires
AxisStepClampOnFire(r, axis, P, time, B) ==
    LET node == r.node
        x == node.position[axis]
        v == node.velocity[axis]
        high == x > B[axis]
        low == ~high /\ x < -B[axis]
        clamped == [ node EXCEPT !.position[axis] = IF high THEN B[axis] ELSE -B[axis] ]
        outward == IF high THEN v > 0 ELSE v < 0
        fires == outward /\ ~Debounced(node, time)
        wall == WallOf(axis, high)
        ev == [ node |-> node.id, axis |-> axis, wall |-> wall, before |-> node.velocity,
                restitution |-> node.restitution,
                fresh |-> node.lastCollisionTime = 0,
                sinceSame |-> node.sinceResponse[axis],
                fired |-> fires,
                ripple |-> fires /\ P.showRipples /\ wall # "front" ]
    IN  IF ~(high \/ low) THEN r
        ELSE IF ~outward THEN r
        ELSE [ node |-> IF fires THEN Respond(clamped, axis, P, time) ELSE node,
               evs |-> Append(r.evs, ev) ]

\* one axis of the collision test; r = [node, evs], evs the outward crossings
AxisStep(r, axis, P, time, B) ==
    LET node == r.node
        x == node.position[axis]
        v == node.velocity[axis]
        high == x > B[axis]
        low == ~high /\ x < -B[axis]
        clamped == [ node EXCEPT !.position[axis] = IF high THEN B[axis] ELSE -B[axis] ]
        outward == IF high THEN v > 0 ELSE v < 0
        fires == outward /\ ~Debounced(node, time)
        wall == WallOf(axis, high)
        ev == [ node |-> node.id, axis |-> axis, wall |-> wall, before |-> node.velocity,
                restitution |-> node.restitution,
                fresh |-> node.lastCollisionTime = 0,
                sinceSame |-> node.sinceResponse[axis],
                fired |-> fires,
                ripple |-> fires /\ P.showRipples /\ wall # "front" ]
    IN  IF ~(high \/ low) THEN r
        ELSE IF ~outward THEN [ r EXCEPT !.node = clamped ]
        ELSE [ node |-> IF fires THEN Respond(clamped, axis, P, time) ELSE clamped,
               evs |-> Append(r.evs, ev) ]

\* position.add(velocity.clone().multiplyScalar(this.nodeSpeed)), then the three axes
NodeStep(node, P, time, B) ==
    LET moved == [ node EXCEPT
                     !.position =
                        [ c \in 1..3 |-> node.position[c] + RoundDiv(node.velocity[c] * P.nodeSpeed, Q) ],
                     !.sinceResponse =
                        [ c \in 1..3 |-> IF node.sinceResponse[c] < 0 THEN -1
                                         ELSE Min(node.sinceResponse[c] + 1, minTimeBetweenCollisions) ] ]
        r0 == [ node |-> moved, evs |-> << >> ]
    IN  AxisStep(AxisStep(AxisStep(r0, 1, P, time, B), 2, P, time, B), 3, P, time, B)

RECURSIVE Flatten(_)
Flatten(ss) == IF ss = << >> THEN << >> ELSE Head(ss) \o Flatten(Tail(ss))

\* an emitter that pushes a ripple for every outward crossing it is handed
RECURSIVE EmitRipplesForAll(_, _)
EmitRipplesForAll(s, evs) ==
    IF evs = << >> THEN s
    ELSE EmitRipplesForAll([ s EXCEPT !.ripples = Append(s.ripples, createRipple(s, Head(evs).wall)),
                                      !.disposed = s.disposed @@ (s.nextId :> Fresh),
                                      !.nextId = s.nextId + 1 ],
                           Tail(evs))

\* this.ripples.push(this.createRipple(...)) for every response that emits one
RECURSIVE EmitRipples(_, _)
EmitRipples(s, evs) ==
    IF evs = << >> THEN s
    ELSE IF ~Head(evs).ripple THEN EmitRipples(s, Tail(evs))
    ELSE EmitRipples([ s EXCEPT !.ripples = Append(s.ripples, createRipple(s, Head(evs).wall)),
                                !.disposed = s.disposed @@ (s.nextId :> Fresh),
                                !.nextId = s.nextId + 1 ],
                     Tail(evs))

updateNodes(s) ==
    LET time == s.now
        B == Boundary(s.aspect)
        stepped == [ i \in 1..Len(s.nodes) |-> NodeStep(s.nodes[i], s.params, time, B) ]
        evs == Flatten([ i \in 1..Len(s.nodes) |-> stepped[i].evs ])
    IN  EmitRipples([ s EXCEPT !.nodes = [ i \in 1..Len(s.nodes) |-> stepped[i].node ],
                               !.events = evs ], evs)

\* one frame: animate()
animate(s, gap, d, spawn) ==
    LET s0 == [ s EXCEPT !.now = IF s.started THEN s.now + gap ELSE s.now,
                         !.started = TRUE,
                         !.rebuilds = 0,
                         !.events = << >>,
                         !.released = {},
                         !.retired = {},
                         !.raised = FALSE,
                         !.lastOp = "frame" ]
    IN  updateRipples(updateParticles(updateNodes(updateTransition(s0, d)), spawn))

-----------------------------------------------------------------------------
(* Operations *)

\* the state a handler starts from
Pre(op) ==
    [ St EXCEPT !.rebuilds = 0, !.events = << >>, !.released = {}, !.retired = {},
                !.raised = FALSE, !.lastOp = op ]

\* a user operation on the panels; the constructor runs the first frame itself.
\* Sliders, selects and checkboxes raise their event when the value changes.
Edit(op) == [ Pre(op) EXCEPT !.edits = edits + 1, !.applied = Null ]
CanEdit == started /\ edits < MaxEdits /\ now <= MaxEditTime

NoSpawn == { << >> }
OneSpawn ==
    { << >>,
      << [ i |-> 1, j |-> 2, forward |-> TRUE, factor |-> 1000 ] >>,
      << [ i |-> 1, j |-> 2, forward |-> FALSE, factor |-> 500 ] >> }

Frame(gap, d, spawn, horizon) ==
    /\ now + gap <= horizon
    /\ \E s \in { animate(Pre("frame"), gap, d, spawn) } :
           /\ s.nextId <= MaxIds + 1
           /\ Becomes(s)

ApplyPreset(preset, d) ==
    /\ CanEdit
    /\ Becomes(applyPreset(Edit("applyPreset"), preset, d))

StartTransition(preset) ==
    /\ CanEdit
    /\ Becomes(startTransition(Edit("startTransition"), preset))

ResetClick ==
    /\ CanEdit
    /\ Becomes(resetClick(Edit("reset")))

NodeCountSlider(val, d) ==
    /\ CanEdit
    /\ val # params.nodeCount
    /\ Becomes(nodeCountSlider(Edit("nodeCount"), val, d))

ToggleConnections(checked) ==
    /\ CanEdit
    /\ checked # params.showAllConnections
    /\ Becomes(toggleConnections(Edit("toggleConnections"), checked))

ToggleParticles(checked) ==
    /\ CanEdit
    /\ checked # params.showParticles
    /\ Becomes(toggleParticles(Edit("toggleParticles"), checked))

ToggleRipples(checked) ==
    /\ CanEdit
    /\ checked # params.showRipples
    /\ Becomes(toggleRipples(Edit("toggleRipples"), checked))

\* a plain slider: this.<field> = val
SetParam(field, val) ==
    /\ CanEdit
    /\ val # params[field]
    /\ Becomes([ Edit("slider") EXCEPT !.params[field] = val ])

SetDuration(val) ==
    /\ CanEdit
    /\ val # transitionDuration
    /\ Becomes([ Edit("duration") EXCEPT !.transitionDuration = val ])

SetEasing(val) ==
    /\ CanEdit
    /\ val # transitionEasing
    /\ Becomes([ Edit("easing") EXCEPT !.transitionEasing = val ])

Resize(a) ==
    /\ CanEdit
    /\ a # aspect
    /\ Becomes(onWindowResize(Edit("resize"), a))

-----------------------------------------------------------------------------
(* The state after construction *)

Constructed(d, a) ==
    createNodes(
      [ params |-> DefaultPreset, nodes |-> << >>, nodeGen |-> 0, nodeRes |-> {},
        nodeDisposals |-> << >>, connections |-> {}, particles |-> << >>,
        ripples |-> << >>, disposed |-> << >>, nextId |-> 1, released |-> {},
        retired |-> {},
        isTransitioning |-> FALSE, transitionStartTime |-> 0,
        transitionDuration |-> 120, transitionEasing |-> "ease-in-out",
        fromPreset |-> Null, toPreset |-> Null, aspect |-> a, now |-> 0,
        started |-> FALSE, events |-> << >>, rebuilds |-> 0, lastOp |-> "init",
        raised |-> FALSE, easingArg |-> 0, easingValue |-> 0, applied |-> Null,
        entry |-> Null,
        twin |-> Null,
        sampling |-> Null,
        dropdown |-> [ value |-> "", requests |-> << >> ],
        edits |-> 0 ], d)

InitFrom(s) ==
        /\ params = s.params
        /\ nodes = s.nodes
        /\ nodeGen = s.nodeGen
        /\ nodeRes = s.nodeRes
        /\ nodeDisposals = s.nodeDisposals
        /\ connections = s.connections
        /\ particles = s.particles
        /\ ripples = s.ripples
        /\ disposed = s.disposed
        /\ nextId = s.nextId
        /\ released = s.released
        /\ retired = s.retired
        /\ isTransitioning = s.isTransitioning
        /\ transitionStartTime = s.transitionStartTime
        /\ transitionDuration = s.transitionDuration
        /\ transitionEasing = s.transitionEasing
        /\ fromPreset = s.fromPreset
        /\ toPreset = s.toPreset
        /\ aspect = s.aspect
        /\ now = s.now
        /\ started = s.started
        /\ events = s.events
        /\ rebuilds = s.rebuilds
        /\ lastOp = s.lastOp
        /\ raised = s.raised
        /\ easingArg = s.easingArg
        /\ easingValue = s.easingValue
        /\ applied = s.applied
        /\ entry = s.entry
        /\ twin = s.twin
        /\ sampling = s.sampling
        /\ dropdown = s.dropdown
        /\ edits = s.edits

InitWith(d, a) == InitFrom(Constructed(d, a))

-----------------------------------------------------------------------------
(* Node physics: frames at 60 fps and at a slow frame rate, resizes, wall sliders *)

PhysDraws ==
    { [ u |-> << 499, 0, 0 >>, vel |-> << 100, 0, 0 >>, restitution |-> 800, friction |-> 900 ],
      [ u |-> << 499, 499, 0 >>, vel |-> << 100, 100, 0 >>, restitution |-> 600, friction |-> 990 ],
      [ u |-> << 0, 0, 499 >>, vel |-> << 20, -30, 90 >>, restitution |-> 900, friction |-> 900 ],
      [ u |-> << -500, -500, -500 >>, vel |-> << -140, -100, -90 >>, restitution |-> 700, friction |-> 950 ],
      [ u |-> << 499, 0, 0 >>, vel |-> << 0, 0, 0 >>, restitution |-> 800, friction |-> 900 ] }

PhysAspects == { 1000, 1778 }
PhysGaps == { 1, 7 }

InitPhys == \E d \in PhysDraws, a \in PhysAspects : InitWith(d, a)

NextPhys ==
    \/ \E gap \in PhysGaps : Frame(gap, RestDraw, << >>, MaxTime)
    \/ \E a \in PhysAspects : Resize(a)
    \/ SetParam("wallRestitution", 800)
    \/ SetParam("nodeSpeed", 1000)
    \/ ToggleRipples(FALSE)

SpecPhys == InitPhys /\ [][NextPhys]_vars

-----------------------------------------------------------------------------
(* Two runs side by side: the same construction draws and the same frames,  *)
(* the second run with its own wall-clock time between frames               *)

TwinGaps == { 1, 7 }

InitTwin ==
    \E d \in PhysDraws, a \in PhysAspects :
        InitFrom([ Constructed(d, a) EXCEPT !.twin = Constructed(d, a) ])

\* one frame of each run
TwinFrame ==
    \E gap \in TwinGaps, other \in TwinGaps :
        /\ now + gap <= MaxTime
        /\ twin.now + other <= MaxTime
        /\ \E s \in { animate(Pre("frame"), gap, RestDraw, << >>) } :
               Becomes([ s EXCEPT !.twin = animate(twin, other, RestDraw, << >>) ])

\* the same slider edit in both runs
TwinSetParam(field, val) ==
    /\ CanEdit
    /\ val # params[field]
    /\ Becomes([ Edit("slider") EXCEPT !.params[field] = val, !.twin.params[field] = val ])

NextTwin ==
    \/ TwinFrame
    \/ TwinSetParam("nodeSpeed", 1000)

SpecTwin == InitTwin /\ [][NextTwin]_vars

-----------------------------------------------------------------------------
(* The spatial sampler, one loop iteration per step.  Extents are held in   *)
(* tenths of a unit and a draw u is Math.random() - 0.5 in tenths, -5..4,    *)
(* for each coordinate, so positions are in hundredths.  Distances are       *)
(* compared by their squares, so the square root in minDistance needs no     *)
(* rounding.                                                                 *)

maxAttempts == 30

\* new THREE.Vector3((Math.random() - 0.5) * width, ... * height, ... * depth)
randomPoint(u, smp) == << u[1] * smp.width, u[2] * smp.height, u[3] * smp.depth >>

distanceSq(a, b) ==
    (a[1] - b[1]) * (a[1] - b[1]) + (a[2] - b[2]) * (a[2] - b[2]) + (a[3] - b[3]) * (a[3] - b[3])

\* Math.min(width, height, depth)
minExtent(smp) == Min(smp.width, Min(smp.height, smp.depth))

\* candidate.distanceTo(existingPoint) < minDistance, where
\* minDistance = Math.min(width, height, depth) / Math.sqrt(numPoints) * 0.8
tooClose(a, b, smp) ==
    distanceSq(a, b) * smp.numPoints < minExtent(smp) * minExtent(smp) * 64

\* candidate.distanceTo(existingPoint) < relaxedDistance = minDistance * 0.9
tooCloseRelaxed(a, b, smp) ==
    distanceSq(a, b) * smp.numPoints * 100 < minExtent(smp) * minExtent(smp) * 5184

\* a test that looks at the point placed last only
validPositionLastOnly(candidate, smp) ==
    \/ smp.points = << >>
    \/ IF smp.phase = "relaxed"
       THEN ~tooCloseRelaxed(candidate, smp.points[Len(smp.points)], smp)
       ELSE ~tooClose(candidate, smp.points[Len(smp.points)], smp)

\* the inner loop over the existing points
validPosition(candidate, smp) ==
    \A k \in 1..Len(smp.points) :
        IF smp.phase = "relaxed" THEN ~tooCloseRelaxed(candidate, smp.points[k], smp)
        ELSE ~tooClose(candidate, smp.points[k], smp)

\* the head of the while loop: another point to place, or return points
whileHead(smp) ==
    IF Len(smp.points) < smp.numPoints
    THEN [ smp EXCEPT !.phase = "target", !.attempt = 0, !.tested = [ target |-> 0, relaxed |-> 0 ] ]
    ELSE [ smp EXCEPT !.phase = "done" ]

push(smp, point) ==
    [ smp EXCEPT !.points = Append(smp.points, point),
                 !.placedBy = Append(smp.placedBy, smp.phase) ]

\* if (numPoints > 0) points.push(random point)
firstPoint(smp, u) ==
    whileHead(IF smp.numPoints > 0 THEN push(smp, randomPoint(u, smp)) ELSE smp)

\* one pass of a for loop: attempt < maxAttempts && !placed
tryCandidate(smp, u) ==
    LET candidate == randomPoint(u, smp)
        counted == [ smp EXCEPT !.tested[smp.phase] = @ + 1 ]
    IN  IF validPosition(candidate, smp) THEN whileHead(push(counted, candidate))
        ELSE IF smp.attempt + 1 < maxAttempts THEN [ counted EXCEPT !.attempt = @ + 1 ]
        ELSE IF smp.phase = "target" THEN [ counted EXCEPT !.phase = "relaxed", !.attempt = 0 ]
        ELSE [ counted EXCEPT !.phase = "fallback" ]

\* if (!placed) points.push(random point)
fallbackPoint(smp, u) == whileHead(push(smp, randomPoint(u, smp)))

SampleCounts == 0..MaxPoints
SampleExtents == { << 4, 4, 4 >>, << 8, 4, 6 >> }
SampleDraws == { << -5, 0, 0 >>, << 4, 0, 0 >>, << -1, 1, 1 >>, << 4, 4, 4 >> }

generatePoissonDiskSampling(numPoints, width, height, depth) ==
    [ numPoints |-> numPoints, width |-> width * 10, height |-> height * 10, depth |-> depth * 10,
      points |-> << >>, placedBy |-> << >>, phase |-> "first", attempt |-> 0,
      tested |-> [ target |-> 0, relaxed |-> 0 ] ]

InitSampler ==
    \E n \in SampleCounts, e \in SampleExtents :
        InitFrom([ Constructed(RestDraw, 1000) EXCEPT
                     !.sampling = generatePoissonDiskSampling(n, e[1], e[2], e[3]) ])

SampleFirst ==
    /\ sampling.phase = "first"
    /\ \E u \in SampleDraws : Becomes([ Pre("sample") EXCEPT !.sampling = firstPoint(sampling, u) ])

SampleTry ==
    /\ sampling.phase \in { "target", "relaxed" }
    /\ \E u \in SampleDraws : Becomes([ Pre("sample") EXCEPT !.sampling = tryCandidate(sampling, u) ])

SampleFallback ==
    /\ sampling.phase = "fallback"
    /\ \E u \in SampleDraws : Becomes([ Pre("sample") EXCEPT !.sampling = fallbackPoint(sampling, u) ])

NextSampler ==
    \/ SampleFirst
    \/ SampleTry
    \/ SampleFallback

SpecSampler == InitSampler /\ [][NextSampler]_vars

\* the call runs on: no step of the loop waits for anything
SpecSamplerRuns == SpecSampler /\ WF_vars(NextSampler)

-----------------------------------------------------------------------------
(* Preset transitions: frames every 0.25 s or 0.5 s, presets, easing, panel edits *)

TransGaps == { 15, 30 }
TransTargets == { PresetB, PresetDense }
TransEasings == { "linear", "elastic" }

InitTrans == InitWith(RestDraw, 1778)

NextTrans ==
    \/ \E gap \in TransGaps : Frame(gap, RestDraw, << >>, MaxTransTime)
    \/ \E preset \in TransTargets : StartTransition(preset)
    \/ ApplyPreset(PresetSparse, RestDraw)
    \/ \E e \in TransEasings : SetEasing(e)
    \/ NodeCountSlider(10, RestDraw)
    \/ \E checked \in BOOLEAN : ToggleConnections(checked)
    \/ ResetClick

SpecTrans == InitTrans /\ [][NextTrans]_vars

-----------------------------------------------------------------------------
(* Collisions during a transition of the wall coefficients, at 4 and 2 frames per second *)

DebounceDraws ==
    { [ u |-> << 492, 0, 0 >>, vel |-> << 100, 0, 0 >>, restitution |-> 800, friction |-> 900 ],
      [ u |-> << 0, -492, 0 >>, vel |-> << 0, -100, 0 >>, restitution |-> 800, friction |-> 900 ] }

InitDebounce == \E d \in DebounceDraws : InitWith(d, 1000)

NextDebounce ==
    \/ \E gap \in TransGaps : Frame(gap, RestDraw, << >>, MaxTransTime)
    \/ SetParam("wallRestitution", 100)
    \/ SetEasing("elastic")
    \/ StartTransition(DefaultPreset)

SpecDebounce == InitDebounce /\ [][NextDebounce]_vars

-----------------------------------------------------------------------------
(* Particle and ripple pools: a node at the right wall, frames every 15 ticks *)

PoolGap == 15

WallDraw == [ u |-> << 499, 0, 0 >>, vel |-> << 100, 0, 0 >>, restitution |-> 800, friction |-> 900 ]

InitPool == InitWith(WallDraw, 1000)

PoolFrame ==
    \E spawn \in (IF now < MaxSpawnTime THEN OneSpawn ELSE NoSpawn) :
        Frame(PoolGap, RestDraw, spawn, MaxPoolTime)

NextPool ==
    \/ PoolFrame
    \/ ApplyPreset(PresetSparse, WallDraw)
    \/ \E checked \in BOOLEAN : ToggleParticles(checked)
    \/ \E checked \in BOOLEAN : ToggleRipples(checked)
    \/ ResetClick

SpecPool == InitPool /\ [][NextPool]_vars

-----------------------------------------------------------------------------
(* Whole lifetimes of particles and ripples: frames every 15 ticks for 46 s, *)
(* particles spawned in the first two frames, sliders moved in the first     *)
(* half second                                                               *)

LifeDraws == { RestDraw, WallDraw }

InitLife == \E d \in LifeDraws : InitWith(d, 1000)

LifeFrame ==
    \E spawn \in (IF now < MaxSpawnTime THEN OneSpawn ELSE NoSpawn) :
        Frame(PoolGap, RestDraw, spawn, MaxLifeTime)

NextLife ==
    \/ LifeFrame
    \/ SetParam("particleSpeed", 100)
    \/ SetParam("particleCount", 0)
    \/ SetParam("rippleDuration", 500)

SpecLife == InitLife /\ [][NextLife]_vars

-----------------------------------------------------------------------------
(* Particles spawned while a transition is in flight, and requests whose     *)
(* target is null: frames every 0.25 s                                       *)

FlowTargets == { DefaultPreset, Null }

InitFlow == InitWith(RestDraw, 1000)

\* no trial succeeds, or the trial of the first pair does
FlowSpawn == { << >>, << [ i |-> 1, j |-> 2, forward |-> TRUE, factor |-> 1000 ] >> }

FlowFrame == \E spawn \in FlowSpawn : Frame(PoolGap, RestDraw, spawn, MaxTransTime)

NextFlow ==
    \/ FlowFrame
    \/ \E preset \in FlowTargets : StartTransition(preset)
    \/ SetEasing("elastic")
    \/ SetParam("particleSpeed", 100)

SpecFlow == InitFlow /\ [][NextFlow]_vars

-----------------------------------------------------------------------------
(* Spawn trials while particles are switched off, the Particle Count slider *)
(* is at 0, or an elastic transition from 5 to 15 nodes leaves the pool     *)
(* with a single node: frames every 0.25 s, a trial offered in every frame  *)

InitSpawn == InitWith(RestDraw, 1000)

SpawnFrame ==
    \E spawn \in FlowSpawn :
        /\ Frame(PoolGap, RestDraw, spawn, MaxTransTime)
        /\ nextId' <= MaxSpawned + 1

NextSpawn ==
    \/ SpawnFrame
    \/ SetParam("particleCount", 0)
    \/ ToggleParticles(FALSE)
    \/ NodeCountSlider(5, RestDraw)
    \/ SetEasing("elastic")
    \/ StartTransition(PresetMid)

SpecSpawn == InitSpawn /\ [][NextSpawn]_vars

-----------------------------------------------------------------------------
(* A transition whose duration and easing are edited while it is in flight:  *)
(* a node at the right wall, frames every 0.25 s, a target with every        *)
(* feature switched off and other ripple parameters                          *)

EntryDurations == { 30, 300 }            \* 0.5 s and 5 s, in ticks

InitEntry == InitWith(WallDraw, 1000)

EntryFrame == \E spawn \in FlowSpawn : Frame(PoolGap, RestDraw, spawn, MaxTransTime)

NextEntry ==
    \/ EntryFrame
    \/ StartTransition(PresetQuiet)
    \/ \E val \in EntryDurations : SetDuration(val)
    \/ SetEasing("ease-in")
    \/ SetParam("rippleSize", 2000)

SpecEntry == InitEntry /\ [][NextEntry]_vars

-----------------------------------------------------------------------------
(* Every way of switching particles and ripples off: the checkboxes, a      *)
(* preset applied at once, the reset button and the boolean snap of a       *)
(* transition, with a particle spawned and a ripple at the right wall       *)

InitVisible == InitWith(WallDraw, 1000)

VisibleFrame == \E spawn \in FlowSpawn : Frame(PoolGap, RestDraw, spawn, MaxTransTime)

NextVisible ==
    \/ VisibleFrame
    \/ StartTransition(PresetQuiet)
    \/ ApplyPreset(PresetQuiet, WallDraw)
    \/ \E checked \in BOOLEAN : ToggleParticles(checked)
    \/ \E checked \in BOOLEAN : ToggleRipples(checked)
    \/ ResetClick

SpecVisible == InitVisible /\ [][NextVisible]_vars

-----------------------------------------------------------------------------
(* The preset dropdown: each selection starts a fetch of the preset file;   *)
(* the fetches complete in any order, or fail                               *)

PresetFiles == { "Mid", "B" }

\* the parsed content of ./presets/<file>
PresetOf(file) == IF file = "Mid" THEN PresetMid ELSE PresetB

Request(file, kind, s) ==
    [ file |-> file, kind |-> kind, state |-> "pending", idle |-> ~s.isTransitioning ]

\* dropdown 'change': REFRESH reloads the list and resets the selection, a
\* file name starts fetch(./presets/<value>)
dropdownChange(s, value) ==
    IF value = "REFRESH" THEN [ s EXCEPT !.dropdown.value = "" ]
    ELSE [ s EXCEPT !.dropdown.value = value,
                    !.dropdown.requests = Append(@, Request(value, "transition", s)) ]

\* the fetch resolved and the body parsed: .then(preset => this.startTransition(preset)),
\* or applyPreset(preset) in loadPresetFromPath
fetchResolved(s, k, d) ==
    LET r == s.dropdown.requests[k]
        s1 == [ s EXCEPT !.dropdown.requests[k].state = "done" ]
    IN  IF r.kind = "transition" THEN startTransition(s1, PresetOf(r.file))
        ELSE applyPreset(s1, PresetOf(r.file), d)

\* the fetch or the parse failed: .catch falls back to
\* loadPresetFromPath(./presets/<the dropdown's value now>); a failure inside
\* loadPresetFromPath is reported and nothing else happens
fetchRejected(s, k) ==
    LET r == s.dropdown.requests[k]
        s1 == [ s EXCEPT !.dropdown.requests[k].state = "failed" ]
    IN  IF r.kind = "transition"
        THEN [ s1 EXCEPT !.dropdown.requests = Append(@, Request(s.dropdown.value, "load", s)) ]
        ELSE s1

Pending(k) == dropdown.requests[k].state = "pending"

Selections == Cardinality({ k \in 1..Len(dropdown.requests) : dropdown.requests[k].kind = "transition" })

DropdownChange(value) ==
    /\ CanEdit
    /\ Selections < MaxSelect
    /\ value # dropdown.value
    /\ Becomes(dropdownChange(Edit("select"), value))

FetchResolved ==
    \E k \in 1..Len(dropdown.requests) :
        /\ Pending(k)
        /\ dropdown.requests[k].file \in PresetFiles
        /\ Becomes(fetchResolved(Pre("fetch"), k, RestDraw))

FetchRejected ==
    \E k \in 1..Len(dropdown.requests) :
        /\ Pending(k)
        /\ Becomes(fetchRejected(Pre("fetch"), k))

InitFetch == InitWith(RestDraw, 1000)

FetchGap == 30

NextFetch ==
    \/ Frame(FetchGap, RestDraw, << >>, MaxTransTime)
    \/ \E value \in PresetFiles \cup { "REFRESH" } : DropdownChange(value)
    \/ FetchResolved
    \/ FetchRejected

SpecFetch == InitFetch /\ [][NextFetch]_vars

-----------------------------------------------------------------------------
(* The easing curves on their own: a name and an argument in [0, 1] are     *)
(* drawn, and the curve of that name is applied to the argument             *)

EasingNames == EasingKinds \cup { "unknown" }

EaseArgs == { (k * Q) \div EaseSamples : k \in 0..EaseSamples }

InitEasing ==
    \E type \in EasingNames, t \in EaseArgs :
        InitFrom([ Constructed(RestDraw, 1000) EXCEPT !.transitionEasing = type, !.easingArg = t ])

\* const easingFunc = this.getEasingFunction(type); easingFunc(t)
EaseCall ==
    /\ lastOp = "init"
    /\ Becomes([ Pre("ease") EXCEPT !.easingValue = getEasingFunction(transitionEasing, easingArg) ])

NextEasing == EaseCall

SpecEasing == InitEasing /\ [][NextEasing]_vars

-----------------------------------------------------------------------------
(* Claims about node motion *)

Inside(node) == \A c \in 1..3 : Abs(node.position[c]) <= Boundary(aspect)[c]

NodeById(id) == CHOOSE i \in 1..Len(nodes) : nodes[i].id = id

Fired == { k \in 1..Len(events) : events[k].fired }

\* C1 as stated: in every reachable state, a resize included, every node lies
\* inside the box derived from the current camera.
C1_AlwaysInside == \A i \in 1..Len(nodes) : Inside(nodes[i])

\* C1 amended: after node creation and after every frame step every node lies
\* inside the box of the current camera, also when the debounce suppressed the
\* velocity response; a resize may leave nodes outside until the next frame.
C1_InsideAfterStep ==
    lastOp \in { "init", "frame", "applyPreset", "nodeCount" }
        => \A i \in 1..Len(nodes) : Inside(nodes[i])

\* a frame in which an outward crossing was clamped although its response was debounced
C1_Witness ==
    /\ lastOp = "frame"
    /\ \E k \in 1..Len(events) :
          /\ ~events[k].fired
          /\ Abs(nodes[NodeById(events[k].node)].position[events[k].axis])
                = Boundary(aspect)[events[k].axis]

\* C5: a fired wall response turns the normal component v into -v * r * R
\* (to the nearest thousandth) and multiplies each of the two other components
\* by the global wallFriction exactly once; node.friction plays no part.
C5_Response ==
    lastOp = "frame" =>
      \A k \in Fired :
        LET e == events[k]
            n == nodes[NodeById(e.node)]
        IN  /\ Cardinality({ j \in Fired : events[j].node = e.node }) = 1
            /\ \A c \in 1..3 :
                  IF c = e.axis
                  THEN Abs(n.velocity[c] * Q * Q + e.before[c] * e.restitution * params.wallRestitution)
                          <= Q * Q
                  ELSE Abs(n.velocity[c] * Q - e.before[c] * params.wallFriction) <= Q

\* a response with moving tangential components, where node.friction differs from wallFriction
C5_Witness ==
    /\ lastOp = "frame"
    /\ \E k \in Fired :
          LET e == events[k]
              n == nodes[NodeById(e.node)]
          IN  /\ \E c \in 1..3 : c # e.axis /\ e.before[c] # 0
              /\ n.friction # params.wallFriction
              /\ n.velocity[e.axis] # 0

\* C7 as stated: a node that has not collided before and crosses a wall with
\* outward velocity is clamped and reflected in that very step, however early.
C7_FreshNodeReflects ==
    lastOp = "frame" =>
      \A k \in 1..Len(events) :
        events[k].fresh =>
          LET e == events[k]
              n == nodes[NodeById(e.node)]
          IN  /\ Abs(n.position[e.axis]) = Boundary(aspect)[e.axis]
              /\ e.fired
              /\ n.velocity[e.axis] * e.before[e.axis] < 0

\* C6 as stated: a node that received an impulse on an axis receives no second
\* impulse on that axis within the next 5 fixed steps (0.1 s of simulated
\* time), whatever wall-clock time elapses between the frames.
C6_OneImpulsePerWindow ==
    lastOp = "frame" =>
      \A k \in Fired :
        events[k].sinceSame >= 0 => events[k].sinceSame >= minTimeBetweenCollisions

-----------------------------------------------------------------------------
(* Claims about ownership of the visual representations *)

Live == Ids(particles) \cup Ids(ripples)

\* C9: a particle or ripple still in its pool has had neither its geometry nor
\* its material disposed of; one that has left its pool, by retirement or by a
\* forced clear, has had each disposed of exactly once.
C9_ReleasedExactlyOnce ==
    \A id \in DOMAIN disposed :
        IF id \in Live
        THEN disposed[id].geometry = 0 /\ disposed[id].material = 0
        ELSE disposed[id].geometry = 1 /\ disposed[id].material = 1

\* a frame that retired a mesh, after an earlier mesh had been released by a forced clear
C9_Witness ==
    /\ lastOp = "frame"
    /\ released # {}
    /\ \E id \in DOMAIN disposed : id \notin Live /\ id \notin released

-----------------------------------------------------------------------------
(* Claims about the transition engine *)

InFlight == isTransitioning /\ fromPreset # Null /\ toPreset # Null

\* the frame about to run, with the clock reading of the next state
AtNextFrame == [ St EXCEPT !.now = now' ]

\* C2: a transition request made while a transition is in flight changes
\* nothing: from, to, the start time and every live parameter keep their
\* values; the transition in flight keeps its endpoints until a frame ends it,
\* and it ends under the name of its original target.
C2_RequestInFlightIgnored ==
    [][ /\ (lastOp' = "startTransition" /\ isTransitioning) =>
             /\ isTransitioning'
             /\ fromPreset' = fromPreset
             /\ toPreset' = toPreset
             /\ transitionStartTime' = transitionStartTime
             /\ params' = params
        /\ (isTransitioning /\ isTransitioning') =>
             /\ fromPreset' = fromPreset
             /\ toPreset' = toPreset
             /\ transitionStartTime' = transitionStartTime
        /\ (isTransitioning /\ ~isTransitioning') =>
             /\ lastOp' = "frame"
             /\ params'.name = toPreset.name ]_vars

\* a request that arrived after the transition in flight had started
C2_Witness ==
    /\ lastOp = "startTransition"
    /\ isTransitioning
    /\ transitionStartTime < now

\* C3 as stated: the frame in which elapsed/duration reaches 1 leaves every
\* live parameter equal to the target preset's value, the preset name equal to
\* the target's name, from and to cleared and the engine idle.
C3_SnapAtEnd ==
    [][ (lastOp' = "frame" /\ InFlight /\ rawProgress(AtNextFrame) >= Q) =>
            /\ params' = toPreset
            /\ ~isTransitioning'
            /\ fromPreset' = Null
            /\ toPreset' = Null ]_vars

Expected(flag, n) == IF flag THEN AllPairs(n) ELSE {}

\* C4 as stated: after every frame the connection lines are exactly the pairs
\* i < j over the live node pool when showAllConnections is set, and there are
\* none when it is not.
C4_ConnectionsFollowFlag ==
    lastOp = "frame" => connections = Expected(params.showAllConnections, Len(nodes))

\* C8 as stated: in every frame of a transition nodeCount is the rounded
\* interpolation of the two presets' counts, the pool is rebuilt exactly when
\* that value differs from the pool size, at most once, and the pool then
\* holds nodeCount nodes.
C8_CountAndPool ==
    [][ (lastOp' = "frame" /\ InFlight) =>
          LET t == easedT(AtNextFrame)
              exact == fromPreset.nodeCount * Q + (toPreset.nodeCount - fromPreset.nodeCount) * t
          IN  /\ 2 * Abs(params'.nodeCount * Q - exact) <= Q + 4 * FlStep(Abs(exact) + Q)
              /\ (rebuilds' >= 1) <=> (params'.nodeCount # Len(nodes))
              /\ rebuilds' <= 1
              /\ Len(nodes') = params'.nodeCount ]_vars

\* the three first parts of C8 without the pool-size conclusion
C8_CountAndRebuild ==
    [][ (lastOp' = "frame" /\ InFlight) =>
          LET t == easedT(AtNextFrame)
              exact == fromPreset.nodeCount * Q + (toPreset.nodeCount - fromPreset.nodeCount) * t
          IN  /\ 2 * Abs(params'.nodeCount * Q - exact) <= Q + 4 * FlStep(Abs(exact) + Q)
              /\ (rebuilds' >= 1) <=> (params'.nodeCount # Len(nodes))
              /\ rebuilds' <= 1 ]_vars

\* C10 as stated: no two nodes share a geometry or a material, and a rebuild
\* calls dispose() exactly once on every object of the batch it releases.
C10_NodesOwnAndReleaseOnce ==
    /\ \A i, j \in 1..Len(nodes) :
          i # j => /\ nodes[i].geometry # nodes[j].geometry
                   /\ nodes[i].material # nodes[j].material
    /\ \A r \in DOMAIN nodeDisposals : nodeDisposals[r] = 1

-----------------------------------------------------------------------------
(* Claims about the lifetime of particles and ripples *)

\* C11: at the end of every frame each live particle has age < lifespan and
\* progress < 1, and the particles the update loop removed in the frame are
\* those that reached one of the two limits in that same step.
C11_LiveParticlesYoung ==
    lastOp = "frame" =>
        /\ \A k \in 1..Len(particles) :
              /\ particles[k].age < particles[k].lifespan
              /\ particles[k].progress < ProgressFull
        /\ \A r \in retired :
              r.kind = "particle" => (r.age = r.limit \/ r.progress >= ProgressFull)

\* a frame removed a slow particle at the age limit, well short of its target
C11_Witness ==
    /\ lastOp = "frame"
    /\ \E r \in retired :
          r.kind = "particle" /\ r.age = Lifespan /\ r.progress < ProgressFull

\* C12: from its spawn (progress 0) to its retirement a particle's progress
\* never decreases from one frame to the next and stays in [0, 1) while the
\* particle is live, whatever transition is in flight when it is spawned.
C12_ProgressMonotone ==
    [][ \A k \in 1..Len(particles') :
          /\ particles'[k].progress >= 0
          /\ particles'[k].progress < ProgressFull
          /\ \A j \in 1..Len(particles) :
                particles[j].id = particles'[k].id =>
                    particles'[k].progress >= particles[j].progress ]_vars

\* C13: a ripple is removed in the first frame in which its age has reached
\* the maxAge it was created with and in no earlier frame (after every frame
\* the live ripples are younger than their maxAge and the removed ones are
\* not), and the opacity of a ripple that stays live is strictly smaller
\* after each frame than before it.
C13_RippleRetiresAtMaxAge ==
    [][ lastOp' = "frame" =>
          /\ \A k \in 1..Len(ripples') : ripples'[k].age * Q < ripples'[k].maxAge * 60
          /\ \A r \in retired' : r.kind = "ripple" => r.age * Q >= r.limit * 60
          /\ \A k \in 1..Len(ripples') : \A j \in 1..Len(ripples) :
                ripples[j].id = ripples'[k].id =>
                    /\ ripples'[k].opacity < ripples[j].opacity
                    /\ ripples'[k].maxAge = ripples[j].maxAge ]_vars

\* a frame removed a ripple whose age is exactly the duration it was created with
C13_Witness ==
    /\ lastOp = "frame"
    /\ \E r \in retired : r.kind = "ripple" /\ r.age * Q = r.limit * 60 /\ r.age > 1

-----------------------------------------------------------------------------
(* Claims about the endpoints of a transition *)

\* C14: in a frame of a transition whose raw progress is 0 every interpolated
\* parameter equals its value in `from`, and in a frame whose raw progress is
\* 1 every interpolated parameter equals its value in `to`, with every easing.
C14_EndpointsExact ==
    [][ (lastOp' = "frame" /\ InFlight) =>
          LET progress == rawProgress(AtNextFrame)
          IN  \A f \in NumericFields \cup CountFields \cup ColorFields \cup BoolFields :
                /\ progress = 0 => params'[f] = fromPreset[f]
                /\ progress = Q => params'[f] = toPreset[f] ]_vars

\* C15: each of the six easing curves, and the curve returned for a name that
\* is none of the six, maps 0 to 0 and 1 to 1.
C15_EasingEndpoints ==
    lastOp = "ease" =>
        /\ easingArg = 0 => easingValue = 0
        /\ easingArg = Q => easingValue = Q

\* the bounce curve was applied to 1: the value is the sum of the last
\* segment's square term and its offset
C15_Witness ==
    /\ lastOp = "ease"
    /\ transitionEasing = "bounce"
    /\ easingArg = Q
    /\ easingValue = Q

-----------------------------------------------------------------------------
(* Claims about spawning *)

\* C16: a frame adds a particle to the pool only if particles are enabled,
\* the pool holds at least two nodes and particleCount is positive; with
\* particleCount = 0, or with fewer than two nodes, no frame adds one.
C16_SpawnOnlyWhenPossible ==
    [][ (lastOp' = "frame" /\ Ids(particles') \ Ids(particles) # {}) =>
          /\ params'.showParticles
          /\ Len(nodes') >= 2
          /\ params'.particleCount > 0 ]_vars

\* a frame ran with particles enabled and a positive particleCount on a pool
\* of fewer than two nodes, and no particle exists
C16_Witness ==
    /\ lastOp = "frame"
    /\ Len(nodes) < 2
    /\ params.showParticles
    /\ params.particleCount > 0
    /\ particles = << >>

-----------------------------------------------------------------------------
(* Claims about applying a preset and about requests *)

\* C17: right after applyPreset(P) the live parameters equal P, the node pool
\* holds P.nodeCount nodes and the particle and ripple pools are empty; and
\* the live parameters still equal P after every later frame, as long as no
\* preset was applied, no transition requested and no control moved since.
C17_AppliedPresetStays ==
    applied # Null =>
        /\ params = applied
        /\ lastOp = "applyPreset" =>
              /\ Len(nodes) = applied.nodeCount
              /\ particles = << >>
              /\ ripples = << >>

\* C18: every request that startTransition accepts, whatever its target, is
\* followed by a return to Idle when frames keep coming and the clock
\* advances: no frame that runs once the duration has elapsed since the
\* request leaves the engine Transitioning.
C18_IdleOnceDurationElapsed ==
    (lastOp = "frame" /\ isTransitioning) => now - transitionStartTime < transitionDuration

\* C19: a request whose target is null is a no-op: startTransition raises no
\* error and changes no parameter and no transition state, and neither does
\* updateTransition in the frames that follow.
C19_NullTargetIsNoOp ==
    [][ /\ (lastOp' = "startTransition" /\ toPreset' = Null) =>
             /\ ~raised'
             /\ params' = params
             /\ isTransitioning' = isTransitioning
             /\ fromPreset' = fromPreset
             /\ toPreset' = toPreset
             /\ transitionStartTime' = transitionStartTime
        /\ (lastOp' = "frame" /\ isTransitioning /\ toPreset = Null) =>
             /\ ~raised'
             /\ params' = params
             /\ isTransitioning' = isTransitioning
             /\ fromPreset' = fromPreset
             /\ toPreset' = toPreset
             /\ transitionStartTime' = transitionStartTime ]_vars

-----------------------------------------------------------------------------
(* Claims about corners *)

\* C20: when a node crosses the boundaries of two axes in one step, moving
\* outward on both, and the debounce interval had elapsed when the step began
\* (the response of the first axis fired), the response of the second axis
\* fires in that step too: both normal components are reflected and, with
\* ripples enabled, each wall other than the front wall gets its ripple.
C20_BothAxesFire ==
    lastOp = "frame" =>
      \A j, k \in 1..Len(events) :
        ( /\ events[j].node = events[k].node
          /\ events[j].axis < events[k].axis
          /\ events[j].fired ) =>
            LET n == nodes[NodeById(events[k].node)]
            IN  /\ events[k].fired
                /\ n.velocity[events[j].axis] * events[j].before[events[j].axis] < 0
                /\ n.velocity[events[k].axis] * events[k].before[events[k].axis] < 0
                /\ (params.showRipples /\ events[k].wall # "front") => events[k].ripple

-----------------------------------------------------------------------------
(* Claims about what a transition fixes when it starts *)

\* progress and eased t of a frame at clock reading `time`, from the duration
\* and easing configured when the transition was accepted
EntryProgress(time) == Min(FlRat((time - transitionStartTime) * Q, entry.duration), Q)

\* C21: every frame of a transition computes its raw progress and its eased t
\* from the start time, duration and easing kind configured when the
\* transition was accepted, whatever is edited meanwhile, so the raw progress
\* never decreases from one frame of the transition to the next.
C21_EntryValuesFixed ==
    [][ (lastOp' = "frame" /\ InFlight) =>
          /\ easingArg' = EntryProgress(now')
          /\ easingValue' = getEasingFunction(entry.easing, easingArg')
          /\ now > transitionStartTime => easingArg' >= easingArg ]_vars

\* C22: in every frame of a transition the three boolean parameters equal
\* `from`'s values while the eased t is below 0.5 and `to`'s values once it
\* is 0.5 or more, and after a frame of the transition in which they took
\* `to`'s values they keep them in every later frame of that transition.
C22_BooleansSwitchOnce ==
    [][ (lastOp' = "frame" /\ InFlight) =>
          \A f \in BoolFields :
            /\ params'[f] = IF easingValue' >= Q \div 2 THEN toPreset[f] ELSE fromPreset[f]
            /\ (now > transitionStartTime /\ easingValue >= Q \div 2) =>
                   params'[f] = toPreset[f] ]_vars

-----------------------------------------------------------------------------
(* Claims about ripples *)

\* C23: a ripple is created with maxAge = rippleDuration and maxRadius =
\* 4.0 * rippleIntensity * rippleSize of the moment it is created, and no
\* later step - a control edit, a transition frame or any other - changes
\* the maxAge or maxRadius of a ripple that exists.
C23_RippleLimitsFixed ==
    [][ \A k \in 1..Len(ripples') :
          LET r == ripples'[k]
          IN  IF r.id \in Ids(ripples)
              THEN \A j \in 1..Len(ripples) :
                      ripples[j].id = r.id =>
                          r.maxAge = ripples[j].maxAge /\ r.maxRadius = ripples[j].maxRadius
              ELSE /\ r.maxAge = params'.rippleDuration
                   /\ r.maxRadius =
                         RoundDiv(4 * params'.rippleIntensity * params'.rippleSize, Q) ]_vars

\* after a frame of a transition a ripple lives on with limits that differ
\* from what the live parameters would give it now
C23_Witness ==
    /\ lastOp = "frame"
    /\ isTransitioning
    /\ \E k \in 1..Len(ripples) :
          /\ ripples[k].maxAge # params.rippleDuration
          /\ ripples[k].maxRadius # RoundDiv(4 * params.rippleIntensity * params.rippleSize, Q)

\* the ripples a step adds, in pool order
RippleAdded(r) == r.id \notin Ids(ripples)
NewRipples == SelectSeq(ripples', RippleAdded)

\* the responses of the step's frame that fired at a wall other than the front one
RippleResponse(ev) == ev.fired /\ ev.wall # "front"
RippleResponses == SelectSeq(events', RippleResponse)

RippleWalls == { "floor", "ceiling", "left", "right", "back" }

\* C24: ripples are created only by a fired wall-collision response in the node
\* step of a frame, only while showRipples is true, one for each such response
\* with its wall, which is floor, ceiling, left, right or back; a response at the
\* front wall reflects the velocity and creates no ripple.
C24_RipplesOnlyFromResponses ==
    [][ /\ (NewRipples # << >> => lastOp' = "frame" /\ params'.showRipples)
        /\ (lastOp' = "frame" =>
               /\ Len(NewRipples) = (IF params'.showRipples THEN Len(RippleResponses) ELSE 0)
               /\ \A k \in 1..Len(NewRipples) :
                      /\ NewRipples[k].wallType = RippleResponses[k].wall
                      /\ NewRipples[k].wallType \in RippleWalls
               /\ \A k \in 1..Len(events') :
                      (events'[k].fired /\ events'[k].wall = "front") =>
                          \E i \in 1..Len(nodes') :
                              /\ nodes'[i].id = events'[k].node
                              /\ nodes'[i].velocity[3] =
                                     Reflected(events'[k].before[3], events'[k].restitution,
                                               params'.wallRestitution)) ]_vars

\* a response fired at the front wall while ripples are shown, and the frame
\* created no ripple
C24_Witness ==
    /\ lastOp = "frame"
    /\ params.showRipples
    /\ \E k \in 1..Len(events) : events[k].fired /\ events[k].wall = "front"
    /\ \A k \in 1..Len(ripples) : ripples[k].age > 1

-----------------------------------------------------------------------------
(* Claims about runs that differ in wall-clock time *)

RippleSpawns(evs) ==
    [ k \in 1..Len(evs) |-> IF evs[k].ripple THEN << evs[k].node, evs[k].wall >> ELSE << >> ]

\* C25: two runs with the same start state, parameters and draws that differ only
\* in the wall-clock time between frames have, after every number of frames, the
\* same node positions and velocities and the same ripple-spawn events.
C25_SameMotionOnAnyClock ==
    twin # Null =>
        /\ Len(nodes) = Len(twin.nodes)
        /\ \A i \in 1..Len(nodes) :
               /\ nodes[i].position = twin.nodes[i].position
               /\ nodes[i].velocity = twin.nodes[i].velocity
        /\ lastOp = "frame" =>
               SelectSeq(RippleSpawns(events), LAMBDA e : e # << >>)
                 = SelectSeq(RippleSpawns(twin.events), LAMBDA e : e # << >>)

-----------------------------------------------------------------------------
(* Claims about the spatial sampler *)

InsideBox(p, smp) ==
    /\ 2 * Abs(p[1]) <= 10 * smp.width
    /\ 2 * Abs(p[2]) <= 10 * smp.height
    /\ 2 * Abs(p[3]) <= 10 * smp.depth

SamplerBounded ==
    /\ Len(sampling.points) <= sampling.numPoints
    /\ \A k \in 1..Len(sampling.points) : InsideBox(sampling.points[k], sampling)
    /\ sampling.tested.target <= maxAttempts
    /\ sampling.tested.relaxed <= maxAttempts
    /\ sampling.phase = "relaxed" => sampling.tested.target = maxAttempts
    /\ sampling.phase = "fallback" =>
           sampling.tested.target = maxAttempts /\ sampling.tested.relaxed = maxAttempts
    /\ sampling.phase = "done" => Len(sampling.points) = sampling.numPoints

SamplerAccepts ==
    (sampling.phase \in { "target", "relaxed" } /\ Len(sampling'.points) = Len(sampling.points) + 1) =>
        \A k \in 1..Len(sampling.points) :
            LET candidate == sampling'.points[Len(sampling'.points)]
            IN  IF sampling.phase = "target"
                THEN ~tooClose(candidate, sampling.points[k], sampling)
                ELSE ~tooCloseRelaxed(candidate, sampling.points[k], sampling)

\* C26: the sampler terminates for every n >= 0 and returns exactly n positions
\* inside the box of the given full extents centred at the origin; for each point
\* it tests at most 30 candidates at the target separation and at most 30 at 0.9
\* times the target before it places a point unconditionally; a candidate accepted
\* in either phase is at least that phase's separation away from every point
\* placed before it.
C26_SamplerTerminatesWithN ==
    /\ [](sampling # Null => SamplerBounded)
    /\ [][SamplerAccepts]_vars
    /\ <>(sampling.phase = "done")

\* a call for three points returned after it placed one point at the relaxed
\* separation and one unconditionally
C26_Witness ==
    /\ sampling # Null
    /\ sampling.phase = "done"
    /\ sampling.numPoints = 3
    /\ sampling.placedBy = << "first", "relaxed", "fallback" >>

-----------------------------------------------------------------------------
(* Claims about disabled pools *)

\* C27: at the end of every frame and after every control, preset or transition
\* operation, the particle pool is empty while showParticles is false and the
\* ripple pool is empty while showRipples is false: every way of disabling them
\* (checkbox, applyPreset, reset, the boolean snap of a transition) clears the
\* pool and nothing is spawned while they are disabled.
C27_DisabledPoolsEmpty ==
    /\ ~params.showParticles => particles = << >>
    /\ ~params.showRipples => ripples = << >>

\* the frame in which a transition snapped both flags to false cleared a live
\* particle and a live ripple
C27_Witness ==
    /\ lastOp = "frame"
    /\ isTransitioning
    /\ ~params.showParticles
    /\ ~params.showRipples
    /\ Cardinality(released) = 2

-----------------------------------------------------------------------------
(* Claims about the nodes a particle travels between *)

NodeIds == { nodes[i].id : i \in 1..Len(nodes) }

\* C28: at every frame boundary the start node and the end node of every live
\* particle are two distinct members of the current node pool; no particle refers
\* to a node that a rebuild (slider, transition frame, applyPreset, reset) disposed of.
C28_ParticleEndsInPool ==
    lastOp = "frame" =>
        \A k \in 1..Len(particles) :
            /\ particles[k].startNode # particles[k].endNode
            /\ particles[k].startNode \in NodeIds
            /\ particles[k].endNode \in NodeIds

-----------------------------------------------------------------------------
(* Claims about the values a transition passes through *)

\* C29: in every frame of a transition between presets inside the documented
\* ranges, every live numeric parameter lies between its values in `from` and
\* `to`; nodeCount lies in 5..25 and equals the size of the node pool;
\* particleSpeed and rippleDuration are positive; with each of the six easings.
C29_ValuesBetweenPresets ==
    [][ (lastOp' = "frame" /\ InFlight) =>
          /\ \A f \in NumericFields \cup CountFields :
                /\ params'[f] >= Min(fromPreset[f], toPreset[f])
                /\ params'[f] <= Max(fromPreset[f], toPreset[f])
          /\ params'.nodeCount \in 5..25
          /\ params'.nodeCount = Len(nodes')
          /\ params'.particleSpeed > 0
          /\ params'.rippleDuration > 0 ]_vars

-----------------------------------------------------------------------------
(* Claims about requests made through the dropdown *)

\* two presets were selected while Idle and neither fetch has completed
TwoRequestsWhileIdle ==
    /\ ~isTransitioning
    /\ Len(dropdown.requests) = 2
    /\ \A k \in 1..2 :
          /\ dropdown.requests[k].kind = "transition"
          /\ dropdown.requests[k].state = "pending"
          /\ dropdown.requests[k].idle
    /\ dropdown.requests[1].file # dropdown.requests[2].file

\* C30: when the user selects preset A and then preset B in the dropdown while
\* Idle, the transition that runs is the one toward A and the request for B is
\* dropped, in whichever order the two fetches complete.
C30_FirstSelectionWins ==
    [][ (TwoRequestsWhileIdle /\ isTransitioning') =>
            toPreset' = PresetOf(dropdown.requests[1].file) ]_vars

====
